---- MODULE Spec2Model ----
(***************************************************************************)
(* A model of nbdime's notebook differ (nbdime/diffing/notebooks.py) and   *)
(* of the remote-close path of its web server (nbdime/webapp/              *)
(* nbdimeserver.py).                                                       *)
(*                                                                         *)
(* Python values are encoded as follows.                                   *)
(*   - a dict is a TLA+ function whose DOMAIN is its key set;              *)
(*   - a text is a sequence of one-character strings;                      *)
(*   - a cell "source" is [islist, lines]: a str is islist = FALSE with    *)
(*     lines = <<text>>, a list of line strings is islist = TRUE;          *)
(*   - list indices in diff entries are Python's (0-based);                *)
(*   - a call that may raise returns [status, value] with status           *)
(*     "returned" or "raised".                                             *)
(***************************************************************************)
EXTENDS Integers, Sequences, FiniteSets, TLC

VARIABLES
    \* ---- predicate harness
    x, y,              \* the two cells handed to the predicates
    r_approximate,     \* outcome of compare_cell_source_approximate(x, y)
    r_exact,           \* outcome of compare_cell_source_exact(x, y)
    r_outputs,         \* outcome of compare_cell_source_and_outputs(x, y)
    \* ---- diff_notebooks
    heap,              \* object store: reference -> dict
    nba, nbb,          \* diff_notebooks' local names (references into heap)
    acells, bcells,    \* the popped cell lists
    nbdiff,            \* diff of the non-cell part, later the whole result
    snakes,            \* result of compute_snakes_multilevel
    di, i0, j0,        \* diff_cells' locals
    pos,               \* index of the next snake the loop of diff_cells takes
    pc,                \* position of the call
    \* ---- web server
    tool,              \* which *_args key params holds: "none", "difftool", "mergetool"
    exit_code,         \* the module global
    loop,              \* IOLoop: "idle", "running", "stopping", "stopped"
    arrived,           \* requests received and not yet polled
    batch,             \* requests the current loop iteration will still handle
    responses,         \* HTTP status of every request handled so far
    stopper,           \* exit_code set by the request whose stop() ended the loop
    returned           \* what main_server returned

predVars == <<x, y, r_approximate, r_exact, r_outputs>>
diffVars == <<heap, nba, nbb, acells, bcells, nbdiff, snakes, di, i0, j0, pos, pc>>
srvVars == <<tool, exit_code, loop, arrived, batch, responses, stopper, returned>>
vars == <<predVars, diffVars, srvVars>>

-----------------------------------------------------------------------------
(* Helpers for the encoding of Python values *)

Min(a, b) == IF a < b THEN a ELSE b
Max(a, b) == IF a < b THEN b ELSE a

Has(d, k) == k \in DOMAIN d

\* a[lo:hi] of Python (0-based, half open) on a TLA+ sequence
Slice(s, lo, hi) == IF hi <= lo THEN <<>> ELSE SubSeq(s, lo + 1, hi)

Returned(v) == [status |-> "returned", value |-> v]
Raised(e) == [status |-> "raised", value |-> e]
NotCalled == [status |-> "none", value |-> "none"]

StrSource(text) == [islist |-> FALSE, lines |-> <<text>>]
ListSource(lines) == [islist |-> TRUE, lines |-> lines]

RECURSIVE JoinLines(_)
\* "\n".join(lines)
JoinLines(lines) ==
    IF Len(lines) = 0 THEN <<>>
    ELSE IF Len(lines) = 1 THEN lines[1]
    ELSE lines[1] \o <<"\n">> \o JoinLines(Tail(lines))

\* notebooks.py 36-41: a list source is joined, a str source is taken as is
NormalizedSource(s) == IF s.islist THEN JoinLines(s.lines) ELSE s.lines[1]

-----------------------------------------------------------------------------
(* difflib.SequenceMatcher(None, a, b, autojunk=False), as used at          *)
(* notebooks.py 63-68: no junk, so every character takes part.              *)

RECURSIVE RunLen(_, _, _, _, _, _)
\* length of the common run a[i:ahi], b[j:bhi] starting at (i, j)
RunLen(a, b, i, ahi, j, bhi) ==
    IF i < ahi /\ j < bhi /\ a[i + 1] = b[j + 1]
    THEN 1 + RunLen(a, b, i + 1, ahi, j + 1, bhi)
    ELSE 0

\* find_longest_match: the longest block; of those the earliest in a; of those
\* the earliest in b.  <<i, j, k>> with k = 0 when nothing matches.
find_longest_match(a, b, alo, ahi, blo, bhi) ==
    LET cand == {<<i, j, RunLen(a, b, i, ahi, j, bhi)>> :
                     i \in alo..(ahi - 1), j \in blo..(bhi - 1)}
        good == {c \in cand : c[3] > 0}
    IN  IF good = {} THEN <<alo, blo, 0>>
        ELSE CHOOSE c \in good :
                \A d \in good :
                    \/ c[3] > d[3]
                    \/ c[3] = d[3] /\ c[1] < d[1]
                    \/ c[3] = d[3] /\ c[1] = d[1] /\ c[2] <= d[2]

RECURSIVE matching_size(_, _, _, _, _, _)
\* total size of get_matching_blocks() over a[alo:ahi], b[blo:bhi]
matching_size(a, b, alo, ahi, blo, bhi) ==
    LET m == find_longest_match(a, b, alo, ahi, blo, bhi)
    IN  IF m[3] = 0 THEN 0
        ELSE m[3]
             + matching_size(a, b, alo, m[1], blo, m[2])
             + matching_size(a, b, m[1] + m[3], ahi, m[2] + m[3], bhi)

Count(s, c) == Cardinality({i \in 1..Len(s) : s[i] = c})
Chars(s) == {s[i] : i \in 1..Len(s)}

RECURSIVE SumOver(_, _, _, _)
SumOver(S, a, b, acc) ==
    IF S = {} THEN acc
    ELSE LET c == CHOOSE e \in S : TRUE
         IN  SumOver(S \ {c}, a, b, acc + Min(Count(a, c), Count(b, c)))

\* quick_ratio's numerator: the size of the multiset intersection
quick_matches(a, b) == SumOver(Chars(a), a, b, 0)

\* real_quick_ratio's numerator
real_quick_matches(a, b) == Min(Len(a), Len(b))

\* threshold = 0.90 (notebooks.py 50), as the fraction ThresholdNum/ThresholdDen
ThresholdNum == 9
ThresholdDen == 10

\* _calculate_ratio(matches, length) < threshold; the ratio is 1.0 when length = 0
RatioBelow(matches, length) ==
    IF length = 0 THEN FALSE
    ELSE 2 * matches * ThresholdDen < ThresholdNum * length

\* _calculate_ratio(matches, length) > threshold
RatioAbove(matches, length) ==
    IF length = 0 THEN TRUE
    ELSE 2 * matches * ThresholdDen > ThresholdNum * length

\* similar_by_ratio with the three comparisons against 0.90 turned around
similar_by_ratio_inverted(xs, ys) ==
    LET length == Len(xs) + Len(ys)
    IN  IF RatioAbove(real_quick_matches(xs, ys), length) THEN FALSE
        ELSE IF RatioAbove(quick_matches(xs, ys), length) THEN FALSE
        ELSE RatioBelow(matching_size(xs, ys, 0, Len(xs), 0, Len(ys)), length)

\* notebooks.py 63-68
similar_by_ratio(xs, ys) ==
    LET length == Len(xs) + Len(ys)
    IN  IF RatioBelow(real_quick_matches(xs, ys), length) THEN FALSE
        ELSE IF RatioBelow(quick_matches(xs, ys), length) THEN FALSE
        ELSE RatioAbove(matching_size(xs, ys, 0, Len(xs), 0, Len(ys)), length)

-----------------------------------------------------------------------------
(* The three cell predicates, notebooks.py 29-88.  A subscript on a missing *)
(* key raises KeyError.                                                     *)

\* compare_cell_source_approximate answering False where a key is missing
compare_cell_source_approximate_total(cx, cy) ==
    IF ~Has(cx, "cell_type") \/ ~Has(cy, "cell_type") THEN Raised("KeyError")
    ELSE IF cx["cell_type"] # cy["cell_type"] THEN Returned(FALSE)
    ELSE IF ~Has(cx, "source") \/ ~Has(cy, "source") THEN Returned(FALSE)
    ELSE LET xs == NormalizedSource(cx["source"])
             ys == NormalizedSource(cy["source"])
         IN  IF xs = ys THEN Returned(TRUE)
             ELSE Returned(similar_by_ratio(xs, ys))

compare_cell_source_approximate(cx, cy) ==
    IF ~Has(cx, "cell_type") \/ ~Has(cy, "cell_type") THEN Raised("KeyError")
    ELSE IF cx["cell_type"] # cy["cell_type"] THEN Returned(FALSE)
    ELSE IF ~Has(cx, "source") \/ ~Has(cy, "source") THEN Raised("KeyError")
    ELSE LET xs == NormalizedSource(cx["source"])
             ys == NormalizedSource(cy["source"])
         IN  IF xs = ys THEN Returned(TRUE)
             ELSE Returned(similar_by_ratio(xs, ys))

\* compare_cell_source_exact without its test of the source (lines 75-76)
compare_cell_source_exact_nosource(cx, cy) ==
    IF ~Has(cx, "cell_type") \/ ~Has(cy, "cell_type") THEN Raised("KeyError")
    ELSE IF cx["cell_type"] # cy["cell_type"] THEN Returned(FALSE)
    ELSE Returned(TRUE)

compare_cell_source_exact(cx, cy) ==
    IF ~Has(cx, "cell_type") \/ ~Has(cy, "cell_type") THEN Raised("KeyError")
    ELSE IF cx["cell_type"] # cy["cell_type"] THEN Returned(FALSE)
    ELSE IF ~Has(cx, "source") \/ ~Has(cy, "source") THEN Raised("KeyError")
    ELSE IF cx["source"] # cy["source"] THEN Returned(FALSE)
    ELSE Returned(TRUE)

\* compare_cell_source_and_outputs without its test of the outputs (lines 86-87)
compare_cell_source_and_outputs_nooutputs(cx, cy) ==
    IF ~Has(cx, "cell_type") \/ ~Has(cy, "cell_type") THEN Raised("KeyError")
    ELSE IF cx["cell_type"] # cy["cell_type"] THEN Returned(FALSE)
    ELSE IF ~Has(cx, "source") \/ ~Has(cy, "source") THEN Raised("KeyError")
    ELSE IF cx["source"] # cy["source"] THEN Returned(FALSE)
    ELSE Returned(TRUE)

compare_cell_source_and_outputs(cx, cy) ==
    IF ~Has(cx, "cell_type") \/ ~Has(cy, "cell_type") THEN Raised("KeyError")
    ELSE IF cx["cell_type"] # cy["cell_type"] THEN Returned(FALSE)
    ELSE IF ~Has(cx, "source") \/ ~Has(cy, "source") THEN Raised("KeyError")
    ELSE IF cx["source"] # cy["source"] THEN Returned(FALSE)
    ELSE IF cx["cell_type"] # "code" THEN Returned(TRUE)
    ELSE IF ~Has(cx, "outputs") \/ ~Has(cy, "outputs") THEN Raised("KeyError")
    ELSE IF cx["outputs"] # cy["outputs"] THEN Returned(FALSE)
    ELSE Returned(TRUE)

\* predicates[level], notebooks.py 103-105
Predicate(level, cx, cy) ==
    IF level = 0 THEN compare_cell_source_approximate(cx, cy)
    ELSE IF level = 1 THEN compare_cell_source_exact(cx, cy)
    ELSE compare_cell_source_and_outputs(cx, cy)

\* len(predicates) - 1, notebooks.py 108
TopLevel == 2

-----------------------------------------------------------------------------
(* Texts and cells the specifications draw their inputs from *)

T_x_eq_1 == <<"x", "=", "1">>                       \* "x=1"
T_x_sp_1 == <<"x", " ", "=", " ", "1">>             \* "x = 1"
T_x_sp_12 == <<"x", " ", "=", " ", "1", "2">>       \* "x = 12"
T_12_sp_x == <<"1", "2", " ", "=", " ", "x">>       \* "12 = x"
T_y_sp_12 == <<"y", " ", "=", " ", "1", "2">>       \* "y = 12"
T_x_nl_y == <<"x", "\n", "y">>                      \* "x\ny"

PredSources ==
    { StrSource(T_x_eq_1), StrSource(T_x_sp_1), StrSource(T_x_sp_12),
      StrSource(T_12_sp_x), StrSource(T_y_sp_12), StrSource(T_x_nl_y),
      StrSource(<<>>),
      ListSource(<<T_x_sp_1>>), ListSource(<<<<"x">>, <<"y">>>>),
      ListSource(<<>>) }

\* cells with and without each of the three keys
PredCells ==
    { [cell_type |-> t] : t \in {"code", "markdown"} } \cup
    { [source |-> s] : s \in {StrSource(T_x_eq_1)} } \cup
    { [cell_type |-> t, source |-> s] :
          t \in {"code", "markdown"}, s \in PredSources } \cup
    { [cell_type |-> t, outputs |-> o] :
          t \in {"code"}, o \in {<<>>, <<1>>} } \cup
    { [cell_type |-> t, source |-> s, outputs |-> o] :
          t \in {"code"}, s \in PredSources, o \in {<<>>, <<1>>} }

WellFormedCell(c) ==
    /\ Has(c, "cell_type")
    /\ Has(c, "source")
    /\ (c["cell_type"] = "code" => Has(c, "outputs"))

-----------------------------------------------------------------------------
(* Diff entries, nbdime/dformat.py: [op, key, args] lists, here tuples *)

ADD == "ADD"
REMOVE == "REMOVE"
REPLACE == "REPLACE"
PATCH == "PATCH"
SEQINSERT == "SEQINSERT"
SEQDELETE == "SEQDELETE"

-----------------------------------------------------------------------------
(* The generic structural differ, nbdime/diffing/generic.py (diff), and the *)
(* patcher, nbdime/patching.py (patch).  Their shapes follow the notebook   *)
(* schema: which keys hold mappings, sequences, sources and scalars.        *)

KeyOrder == <<"cell_type", "metadata", "name", "nbformat_minor", "outputs", "source">>

KeyKind(k) ==
    IF k = "metadata" THEN "map"
    ELSE IF k = "outputs" THEN "seq"
    ELSE IF k = "source" THEN "source"
    ELSE IF k = "cells" THEN "cells"
    ELSE "scalar"

RECURSIVE lcs_length(_, _, _, _)
\* length of a longest common subsequence of a[i:], b[j:] (0-based)
lcs_length(a, b, i, j) ==
    IF i >= Len(a) \/ j >= Len(b) THEN 0
    ELSE IF a[i + 1] = b[j + 1] THEN 1 + lcs_length(a, b, i + 1, j + 1)
    ELSE Max(lcs_length(a, b, i + 1, j), lcs_length(a, b, i, j + 1))

RECURSIVE lcs_pairs(_, _, _, _)
\* the matched index pairs of one longest common subsequence
lcs_pairs(a, b, i, j) ==
    IF i >= Len(a) \/ j >= Len(b) THEN <<>>
    ELSE IF a[i + 1] = b[j + 1] THEN <<<<i, j, 1>>>> \o lcs_pairs(a, b, i + 1, j + 1)
    ELSE IF lcs_length(a, b, i + 1, j) >= lcs_length(a, b, i, j + 1)
         THEN lcs_pairs(a, b, i + 1, j)
         ELSE lcs_pairs(a, b, i, j + 1)

RECURSIVE ranges_from_snakes(_, _, _, _, _)
\* delete/insert ranges for the runs a list of snakes leaves unmatched
ranges_from_snakes(a, b, sn, ci, cj) ==
    LET s == IF sn = <<>> THEN <<Len(a), Len(b), 0>> ELSE Head(sn)
        del == IF s[1] > ci THEN <<<<SEQDELETE, ci, s[1] - ci>>>> ELSE <<>>
        ins == IF s[2] > cj THEN <<<<SEQINSERT, ci, Slice(b, cj, s[2])>>>> ELSE <<>>
    IN  IF sn = <<>> THEN del \o ins
        ELSE del \o ins \o ranges_from_snakes(a, b, Tail(sn), s[1] + s[3], s[2] + s[3])

\* diff of two sequences of scalars
diff_sequence(a, b) == ranges_from_snakes(a, b, lcs_pairs(a, b, 0, 0), 0, 0)

RECURSIVE diff_keys(_, _, _)
\* diff of two mappings, key by key from position n of KeyOrder
diff_keys(a, b, n) ==
    IF n > Len(KeyOrder) THEN <<>>
    ELSE LET k == KeyOrder[n]
             e == IF Has(a, k) /\ ~Has(b, k) THEN <<<<REMOVE, k>>>>
                  ELSE IF ~Has(a, k) /\ Has(b, k) THEN <<<<ADD, k, b[k]>>>>
                  ELSE IF ~Has(a, k) \/ a[k] = b[k] THEN <<>>
                  ELSE IF KeyKind(k) = "map"
                       THEN <<<<PATCH, k, diff_keys(a[k], b[k], 1)>>>>
                  ELSE IF KeyKind(k) = "seq"
                       THEN <<<<PATCH, k, diff_sequence(a[k], b[k])>>>>
                  ELSE IF KeyKind(k) = "source" /\ a[k].islist /\ b[k].islist
                       THEN <<<<PATCH, k, diff_sequence(a[k].lines, b[k].lines)>>>>
                  ELSE <<<<REPLACE, k, b[k]>>>>
         IN  e \o diff_keys(a, b, n + 1)

\* diff(a, b) on two mappings
diff(a, b) == diff_keys(a, b, 1)

DictSet(d, k, v) == [kk \in DOMAIN d \cup {k} |-> IF kk = k THEN v ELSE d[kk]]
DictDel(d, k) == [kk \in DOMAIN d \ {k} |-> d[kk]]

RECURSIVE patch_dict(_, _)
RECURSIVE patch_list(_, _, _, _)

\* patch of a list: entries are keyed by indices of the unpatched list; items
\* the diff does not mention are taken over, take never moves backwards
patch_list(obj, d, take, ofdicts) ==
    IF d = <<>> THEN Slice(obj, take, Len(obj))
    ELSE LET e == Head(d)
             index == e[2]
             kept == Slice(obj, take, index)
             new == IF e[1] = SEQINSERT THEN e[3]
                    ELSE IF e[1] = SEQDELETE THEN <<>>
                    ELSE IF ofdicts THEN <<patch_dict(obj[index + 1], e[3])>>
                    ELSE <<obj[index + 1]>>
             skip == IF e[1] = SEQINSERT THEN 0
                     ELSE IF e[1] = SEQDELETE THEN e[3]
                     ELSE 1
         IN  kept \o new \o patch_list(obj, Tail(d), Max(take, index + skip), ofdicts)

patch_dict(obj, d) ==
    IF d = <<>> THEN obj
    ELSE LET e == Head(d)
             k == e[2]
             now == IF e[1] = REMOVE THEN DictDel(obj, k)
                    ELSE IF e[1] = ADD \/ e[1] = REPLACE THEN DictSet(obj, k, e[3])
                    ELSE IF KeyKind(k) = "map" THEN DictSet(obj, k, patch_dict(obj[k], e[3]))
                    ELSE IF KeyKind(k) = "cells"
                         THEN DictSet(obj, k, patch_list(obj[k], e[3], 0, TRUE))
                    ELSE IF KeyKind(k) = "source"
                         THEN DictSet(obj, k,
                                  ListSource(patch_list(obj[k].lines, e[3], 0, FALSE)))
                    ELSE DictSet(obj, k, patch_list(obj[k], e[3], 0, FALSE))
         IN  patch_dict(now, Tail(d))

\* patch(obj, diff) on a mapping
patch(obj, d) == patch_dict(obj, d)

-----------------------------------------------------------------------------
(* The multilevel snake computer, nbdime/diffing/snakes.py.  A rectangle is *)
(* <<i0, j0, i1, j1>>, a snake is <<i, j, n>>, all 0-based.                 *)

\* does predicates[level] raise on some pair of the rectangle
RectRaises(A, B, rect, level) ==
    \E i \in rect[1]..(rect[3] - 1), j \in rect[2]..(rect[4] - 1) :
        Predicate(level, A[i + 1], B[j + 1]).status = "raised"

\* the grid of predicates[level] over the rectangle
MatchGrid(A, B, rect, level) ==
    [i \in rect[1]..(rect[3] - 1), j \in rect[2]..(rect[4] - 1) |->
        LET r == Predicate(level, A[i + 1], B[j + 1])
        IN  r.status = "returned" /\ r.value]

RECURSIVE AllChains(_, _, _, _, _)
\* every chain of matching pairs, strictly increasing in both coordinates
AllChains(G, i, j, i1, j1) ==
    {<<>>} \cup
    UNION { LET p == pq[1]
                q == pq[2]
            IN  { <<pq>> \o c : c \in AllChains(G, p + 1, q + 1, i1, j1) } :
            pq \in { e \in (i..(i1 - 1)) \X (j..(j1 - 1)) : G[e[1], e[2]] } }

RECURSIVE MergePairs(_, _)
\* adjacent consecutive pairs are merged into snakes
MergePairs(chain, acc) ==
    IF chain = <<>> THEN acc
    ELSE LET pq == Head(chain)
             last == IF acc = <<>> THEN <<0, 0, 0>> ELSE acc[Len(acc)]
         IN  IF acc # <<>> /\ last[1] + last[3] = pq[1] /\ last[2] + last[3] = pq[2]
             THEN MergePairs(Tail(chain),
                      [acc EXCEPT ![Len(acc)] = <<last[1], last[2], last[3] + 1>>])
             ELSE MergePairs(Tail(chain), Append(acc, <<pq[1], pq[2], 1>>))

LongSnakes(sn) == Cardinality({k \in 1..Len(sn) : sn[k][3] >= 2})

Abs(n) == IF n < 0 THEN -n ELSE n

RECURSIVE DiagonalDistance(_, _)
\* how far the pairs of a chain lie from the diagonal of the rectangle
DiagonalDistance(chain, rect) ==
    IF chain = <<>> THEN 0
    ELSE Abs((Head(chain)[1] - rect[1]) - (Head(chain)[2] - rect[2]))
         + DiagonalDistance(Tail(chain), rect)

\* compute_snakes: the longest chains under predicates[level]; of those the ones
\* with most snakes of length >= 2; of those the ones closest to the diagonal
compute_snakes(A, B, rect, level) ==
    LET G == MatchGrid(A, B, rect, level)
        all == AllChains(G, rect[1], rect[2], rect[3], rect[4])
        longest == {c \in all : \A d \in all : Len(d) <= Len(c)}
        runs == {c \in longest :
                    \A d \in longest :
                        LongSnakes(MergePairs(d, <<>>)) <= LongSnakes(MergePairs(c, <<>>))}
        near == {c \in runs :
                    \A d \in runs : DiagonalDistance(c, rect) <= DiagonalDistance(d, rect)}
    IN  {MergePairs(c, <<>>) : c \in near}

RectEmpty(rect) == rect[1] >= rect[3] \/ rect[2] >= rect[4]

RECURSIVE compute_snakes_multilevel(_, _, _, _)
RECURSIVE FillGaps(_, _, _, _, _, _, _)

\* the outcomes of splicing level-1 snakes into the gaps sn leaves, from corner
\* (ci, cj) on: each Returned(list of snakes) or Raised
FillGaps(A, B, sn, ci, cj, rect, level) ==
    LET s == IF sn = <<>> THEN <<rect[3], rect[4], 0>> ELSE Head(sn)
        gap == compute_snakes_multilevel(A, B, <<ci, cj, s[1], s[2]>>, level - 1)
        rest == IF sn = <<>> THEN {Returned(<<>>)}
                ELSE FillGaps(A, B, Tail(sn), s[1] + s[3], s[2] + s[3], rect, level)
        own == IF sn = <<>> THEN <<>> ELSE <<s>>
    IN  { IF g.status = "raised" \/ r.status = "raised" THEN Raised("KeyError")
          ELSE Returned(g.value \o own \o r.value) : g \in gap, r \in rest }

compute_snakes_multilevel(A, B, rect, level) ==
    IF level < 0 \/ RectEmpty(rect) THEN {Returned(<<>>)}
    ELSE IF RectRaises(A, B, rect, level) THEN {Raised("KeyError")}
    ELSE UNION { FillGaps(A, B, sn, rect[1], rect[2], rect, level) :
                   sn \in compute_snakes(A, B, rect, level) }

\* a list of snakes inside the rectangle, increasing and non-overlapping in both
\* sequences
Monotonic(sn, rect) ==
    /\ \A k \in 1..Len(sn) :
          /\ sn[k][3] >= 1
          /\ rect[1] <= sn[k][1] /\ sn[k][1] + sn[k][3] <= rect[3]
          /\ rect[2] <= sn[k][2] /\ sn[k][2] + sn[k][3] <= rect[4]
    /\ \A k \in 1..(Len(sn) - 1) :
          /\ sn[k][1] + sn[k][3] <= sn[k + 1][1]
          /\ sn[k][2] + sn[k][3] <= sn[k + 1][2]

-----------------------------------------------------------------------------
(* diff_cells and diff_notebooks, notebooks.py 91-155 *)

\* diff_single_cells, notebooks.py 91-96
diff_single_cells(a, b) == diff(a, b)

RECURSIVE cell_patches_always(_, _, _, _, _, _)
\* cell_patches without the test "if cd" (line 122)
cell_patches_always(a, b, i, j, n, k) ==
    IF k >= n THEN <<>>
    ELSE <<<<PATCH, i + k, diff_single_cells(a[i + k + 1], b[j + k + 1])>>>>
         \o cell_patches_always(a, b, i, j, n, k + 1)

RECURSIVE cell_patches(_, _, _, _, _, _)
\* the loop "for k in range(n)", notebooks.py 120-123, from k on
cell_patches(a, b, i, j, n, k) ==
    IF k >= n THEN <<>>
    ELSE LET cd == diff_single_cells(a[i + k + 1], b[j + k + 1])
         IN  (IF cd # <<>> THEN <<<<PATCH, i + k, cd>>>> ELSE <<>>)
             \o cell_patches(a, b, i, j, n, k + 1)

\* diff_cells_step with line 125 as "i0, j0 = i+n, j"
diff_cells_step_j(a, b, s, st) ==
    LET i == s[1]
        j == s[2]
        n == s[3]
        del == IF i > st.i0 THEN <<<<SEQDELETE, st.i0, i - st.i0>>>> ELSE <<>>
        ins == IF j > st.j0 THEN <<<<SEQINSERT, st.i0, Slice(b, st.j0, j)>>>> ELSE <<>>
    IN  [di |-> st.di \o del \o ins \o cell_patches(a, b, i, j, n, 0),
         i0 |-> i + n,
         j0 |-> j]

\* diff_cells_step with line 125 as "i0, j0 = i, j+n"
diff_cells_step_i(a, b, s, st) ==
    LET i == s[1]
        j == s[2]
        n == s[3]
        del == IF i > st.i0 THEN <<<<SEQDELETE, st.i0, i - st.i0>>>> ELSE <<>>
        ins == IF j > st.j0 THEN <<<<SEQINSERT, st.i0, Slice(b, st.j0, j)>>>> ELSE <<>>
    IN  [di |-> st.di \o del \o ins \o cell_patches(a, b, i, j, n, 0),
         i0 |-> i,
         j0 |-> j + n]

\* diff_cells_step without line 125
diff_cells_step_stay(a, b, s, st) ==
    LET i == s[1]
        j == s[2]
        n == s[3]
        del == IF i > st.i0 THEN <<<<SEQDELETE, st.i0, i - st.i0>>>> ELSE <<>>
        ins == IF j > st.j0 THEN <<<<SEQINSERT, st.i0, Slice(b, st.j0, j)>>>> ELSE <<>>
    IN  [di |-> st.di \o del \o ins \o cell_patches(a, b, i, j, n, 0),
         i0 |-> st.i0,
         j0 |-> st.j0]

\* one turn of the loop over snakes + [(i1, j1, 0)], notebooks.py 115-125
diff_cells_step(a, b, s, st) ==
    LET i == s[1]
        j == s[2]
        n == s[3]
        del == IF i > st.i0 THEN <<<<SEQDELETE, st.i0, i - st.i0>>>> ELSE <<>>
        ins == IF j > st.j0 THEN <<<<SEQINSERT, st.i0, Slice(b, st.j0, j)>>>> ELSE <<>>
    IN  [di |-> st.di \o del \o ins \o cell_patches(a, b, i, j, n, 0),
         i0 |-> i + n,
         j0 |-> j + n]

\* dict_copy handing back the object itself: "nba = nba" for "nba = nba.copy()"
dict_copy_alias(h, r) == [heap |-> h, ref |-> r]

\* dict.copy(): a new object with the same items
dict_copy(h, r) == [heap |-> Append(h, h[r]), ref |-> Len(h) + 1]

\* dict.pop(key) on the object r refers to
dict_pop(h, r, key) ==
    IF ~Has(h[r], key) THEN [heap |-> h, out |-> Raised("KeyError")]
    ELSE [heap |-> [h EXCEPT ![r] = DictDel(h[r], key)], out |-> Returned(h[r][key])]

\* notebooks.py 142-143
Copy ==
    /\ pc = "copy"
    /\ LET c1 == dict_copy(heap, nba)
           c2 == dict_copy(c1.heap, nbb)
       IN  /\ heap' = c2.heap
           /\ nba' = c1.ref
           /\ nbb' = c2.ref
    /\ pc' = "pop_a"
    /\ UNCHANGED <<acells, bcells, nbdiff, snakes, di, i0, j0, pos>>
    /\ UNCHANGED <<predVars, srvVars>>

\* notebooks.py 144
PopA ==
    /\ pc = "pop_a"
    /\ LET r == dict_pop(heap, nba, "cells")
       IN  /\ heap' = r.heap
           /\ IF r.out.status = "raised"
              THEN pc' = "failed" /\ acells' = acells
              ELSE pc' = "pop_b" /\ acells' = r.out.value
    /\ UNCHANGED <<nba, nbb, bcells, nbdiff, snakes, di, i0, j0, pos>>
    /\ UNCHANGED <<predVars, srvVars>>

\* notebooks.py 145
PopB ==
    /\ pc = "pop_b"
    /\ LET r == dict_pop(heap, nbb, "cells")
       IN  /\ heap' = r.heap
           /\ IF r.out.status = "raised"
              THEN pc' = "failed" /\ bcells' = bcells
              ELSE pc' = "diff_rest" /\ bcells' = r.out.value
    /\ UNCHANGED <<nba, nbb, acells, nbdiff, snakes, di, i0, j0, pos>>
    /\ UNCHANGED <<predVars, srvVars>>

\* notebooks.py 148
DiffRest ==
    /\ pc = "diff_rest"
    /\ nbdiff' = diff(heap[nba], heap[nbb])
    /\ pc' = "snakes"
    /\ UNCHANGED <<heap, nba, nbb, acells, bcells, snakes, di, i0, j0, pos>>
    /\ UNCHANGED <<predVars, srvVars>>

FullRect == <<0, 0, Len(acells), Len(bcells)>>

\* notebooks.py 108-114: the snakes are computed, the loop's locals are set
ComputeSnakes ==
    /\ pc = "snakes"
    /\ \E o \in compute_snakes_multilevel(acells, bcells, FullRect, TopLevel) :
          IF o.status = "raised"
          THEN pc' = "failed" /\ UNCHANGED <<snakes, di, i0, j0, pos>>
          ELSE /\ snakes' = o.value
               /\ di' = <<>>
               /\ i0' = 0
               /\ j0' = 0
               /\ pos' = 1
               /\ pc' = "loop"
    /\ UNCHANGED <<heap, nba, nbb, acells, bcells, nbdiff>>
    /\ UNCHANGED <<predVars, srvVars>>

\* the snake the loop takes at position n: the snakes, then (i1, j1, 0)
LoopSnake(n) == IF n <= Len(snakes) THEN snakes[n] ELSE <<Len(acells), Len(bcells), 0>>

\* notebooks.py 115-125, one turn
DiffCellsStep ==
    /\ pc = "loop"
    /\ pos <= Len(snakes) + 1
    /\ LET st == diff_cells_step(acells, bcells, LoopSnake(pos),
                                 [di |-> di, i0 |-> i0, j0 |-> j0])
       IN  /\ di' = st.di
           /\ i0' = st.i0
           /\ j0' = st.j0
    /\ pos' = pos + 1
    /\ UNCHANGED <<heap, nba, nbb, acells, bcells, nbdiff, snakes, pc>>
    /\ UNCHANGED <<predVars, srvVars>>

\* notebooks.py 151-155
AppendCells ==
    /\ pc = "loop"
    /\ pos = Len(snakes) + 2
    /\ nbdiff' = IF di # <<>> THEN Append(nbdiff, <<PATCH, "cells", di>>) ELSE nbdiff
    /\ pc' = "done"
    /\ UNCHANGED <<heap, nba, nbb, acells, bcells, snakes, di, i0, j0, pos>>
    /\ UNCHANGED <<predVars, srvVars>>

-----------------------------------------------------------------------------
(* Inputs of diff_notebooks *)

MaxCells == 2

O1 == <<1>>
O2 == <<2>>

CellP == [cell_type |-> "code", source |-> StrSource(T_x_sp_1), outputs |-> O1]
CellQ == [cell_type |-> "code", source |-> StrSource(T_x_sp_1), outputs |-> O2]
CellR == [cell_type |-> "code", source |-> StrSource(T_x_sp_12), outputs |-> O1]
CellL == [cell_type |-> "code", source |-> ListSource(<<T_x_sp_1>>), outputs |-> O1]
CellM == [cell_type |-> "markdown", source |-> StrSource(T_x_sp_1)]
CellNoSource == [cell_type |-> "code", outputs |-> O1]

DiffCells == {CellP, CellQ, CellR, CellL, CellM, CellNoSource}

SeqsUpTo(S, n) == UNION {[1..k -> S] : k \in 0..n}

Rest1 == [metadata |-> [name |-> "a"]]
Rest2 == [metadata |-> [name |-> "b"]]
Rest3 == [metadata |-> [name |-> "a"], nbformat_minor |-> 1]

RestPairs == {<<Rest1, Rest1>>, <<Rest1, Rest2>>, <<Rest1, Rest3>>, <<Rest3, Rest1>>}

Notebook(rest, cells) == DictSet(rest, "cells", cells)

InitPredIdle ==
    /\ x = CellP
    /\ y = CellP
    /\ r_approximate = NotCalled
    /\ r_exact = NotCalled
    /\ r_outputs = NotCalled

NoCode == [type |-> "none", text |-> ""]
IntCode(t) == [type |-> "int", text |-> t]
StrCode(t) == [type |-> "str", text |-> t]

InitSrvIdle ==
    /\ tool = "none"
    /\ exit_code = IntCode("0")
    /\ loop = "idle"
    /\ arrived = <<>>
    /\ batch = <<>>
    /\ responses = <<>>
    /\ stopper = NoCode
    /\ returned = NoCode

InitCall(docA, docB) ==
    /\ heap = <<docA, docB>>
    /\ nba = 1
    /\ nbb = 2
    /\ acells = <<>>
    /\ bcells = <<>>
    /\ nbdiff = <<>>
    /\ snakes = <<>>
    /\ di = <<>>
    /\ i0 = 0
    /\ j0 = 0
    /\ pos = 0
    /\ pc = "copy"

\* the notebooks over a non-cell part: every cell list, and one without "cells"
Notebooks(rest) == {Notebook(rest, c) : c \in SeqsUpTo(DiffCells, MaxCells)} \cup {rest}

Init ==
    /\ InitPredIdle
    /\ InitSrvIdle
    /\ \E rp \in RestPairs :
       \E docA \in Notebooks(rp[1]) :
       \E docB \in Notebooks(rp[2]) :
          InitCall(docA, docB)

Next ==
    \/ Copy
    \/ PopA
    \/ PopB
    \/ DiffRest
    \/ ComputeSnakes
    \/ DiffCellsStep
    \/ AppendCells

Spec == Init /\ [][Next]_vars

-----------------------------------------------------------------------------
(* diff_cells over any list of snakes: the snake computer is replaced by a  *)
(* choice among all monotonic, non-overlapping lists of snakes.             *)

RECURSIVE AllSnakeLists(_, _, _, _)
AllSnakeLists(i, j, i1, j1) ==
    {<<>>} \cup
    UNION { { <<s>> \o r : r \in AllSnakeLists(s[1] + s[3], s[2] + s[3], i1, j1) } :
            s \in { e \in (i..(i1 - 1)) \X (j..(j1 - 1)) \X (1..Max(i1, j1)) :
                      e[1] + e[3] <= i1 /\ e[2] + e[3] <= j1 } }

\* notebooks.py 108-114 with any monotonic list of snakes in place of line 110
AnySnakes ==
    /\ pc = "snakes"
    /\ \E sn \in AllSnakeLists(0, 0, Len(acells), Len(bcells)) :
          snakes' = sn
    /\ di' = <<>>
    /\ i0' = 0
    /\ j0' = 0
    /\ pos' = 1
    /\ pc' = "loop"
    /\ UNCHANGED <<heap, nba, nbb, acells, bcells, nbdiff>>
    /\ UNCHANGED <<predVars, srvVars>>

SnakeCells == {CellP, CellQ, CellM}

InitSnakes ==
    /\ InitPredIdle
    /\ InitSrvIdle
    /\ \E ca \in SeqsUpTo(SnakeCells, MaxCells) :
       \E cb \in SeqsUpTo(SnakeCells, MaxCells) :
          InitCall(Notebook(Rest1, ca), Notebook(Rest1, cb))

NextSnakes ==
    \/ Copy
    \/ PopA
    \/ PopB
    \/ DiffRest
    \/ AnySnakes
    \/ DiffCellsStep
    \/ AppendCells

SpecSnakes == InitSnakes /\ [][NextSnakes]_vars

-----------------------------------------------------------------------------
(* Scenarios: B is A with one cell changed, either in its source or in its  *)
(* outputs.                                                                 *)

MaxScenarioCells == 3

CellA1 == [cell_type |-> "code", source |-> StrSource(T_x_eq_1), outputs |-> O1]
CellM1 == [cell_type |-> "markdown", source |-> StrSource(T_x_eq_1)]

ScenarioCells == {CellA1, CellP, CellQ, CellR, CellM1}

\* c2 is c1 with only its source changed, or only its outputs changed
OneFieldChanged(c1, c2) ==
    /\ c1 # c2
    /\ c1["cell_type"] = c2["cell_type"]
    /\ \/ c1["source"] = c2["source"]
       \/ c1["cell_type"] # "code"
       \/ c1["outputs"] = c2["outputs"]

InitScenario ==
    /\ InitPredIdle
    /\ InitSrvIdle
    /\ \E ca \in SeqsUpTo(ScenarioCells, MaxScenarioCells) :
       \E k \in 1..Len(ca) :
       \E c \in ScenarioCells :
          /\ OneFieldChanged(ca[k], c)
          /\ InitCall(Notebook(Rest1, ca), Notebook(Rest1, [ca EXCEPT ![k] = c]))

SpecScenario == InitScenario /\ [][Next]_vars

-----------------------------------------------------------------------------
(* The three predicates applied to a pair of cells *)

ApplyApproximate ==
    /\ r_approximate.status = "none"
    /\ r_approximate' = compare_cell_source_approximate(x, y)
    /\ UNCHANGED <<x, y, r_exact, r_outputs>>
    /\ UNCHANGED <<diffVars, srvVars>>

ApplyExact ==
    /\ r_exact.status = "none"
    /\ r_exact' = compare_cell_source_exact(x, y)
    /\ UNCHANGED <<x, y, r_approximate, r_outputs>>
    /\ UNCHANGED <<diffVars, srvVars>>

ApplyAndOutputs ==
    /\ r_outputs.status = "none"
    /\ r_outputs' = compare_cell_source_and_outputs(x, y)
    /\ UNCHANGED <<x, y, r_approximate, r_exact>>
    /\ UNCHANGED <<diffVars, srvVars>>

InitDiffIdle == InitCall(Rest1, Rest1)

InitPredicates ==
    /\ x \in PredCells
    /\ y \in PredCells
    /\ r_approximate = NotCalled
    /\ r_exact = NotCalled
    /\ r_outputs = NotCalled
    /\ InitDiffIdle
    /\ InitSrvIdle

NextPredicates ==
    \/ ApplyApproximate
    \/ ApplyExact
    \/ ApplyAndOutputs

SpecPredicates == InitPredicates /\ [][NextPredicates]_vars

-----------------------------------------------------------------------------
(* The web server, nbdimeserver.py: main_server, the IOLoop and the         *)
(* handlers of POST /api/closetool and GET /.                               *)
(*                                                                          *)
(* IOLoop.stop() only marks the loop: start() returns once the current      *)
(* iteration is over, and what that iteration already holds is still run.   *)

MaxRequests == 3

\* the values a request's exit_code header takes; "absent" is no header
HeaderValues == {"absent", "0", "1", "2"}

Requests ==
    {[path |-> "/api/closetool", header |-> h] : h \in HeaderValues}
    \cup {[path |-> "/", header |-> "absent"]}

\* self.request.headers.get("exit_code", 0), nbdimeserver.py 197
header_get_exit_code(req) ==
    IF req.header = "absent" THEN IntCode("0") ELSE StrCode(req.header)

\* ApiCloseHandler.post, nbdimeserver.py 189-201, as the change it makes to
\* [exit_code, loop]; status is the HTTP status of the response
ApiCloseHandler_post(params, req, st) ==
    IF params = "none"
    THEN [exit_code |-> st.exit_code, loop |-> st.loop, status |-> 400]
    ELSE [exit_code |-> header_get_exit_code(req), loop |-> "stopping", status |-> 200]

\* MainHandler.get, nbdimeserver.py 81-82
MainHandler_get(params, req, st) ==
    [exit_code |-> st.exit_code, loop |-> st.loop, status |-> 200]

\* main_server up to ioloop.IOLoop.current().start(), nbdimeserver.py 235-251
MainServerStart ==
    /\ loop = "idle"
    /\ loop' = "running"
    /\ UNCHANGED <<tool, exit_code, arrived, batch, responses, stopper, returned>>
    /\ UNCHANGED <<predVars, diffVars>>

\* a client sends a request
Arrive ==
    /\ loop \in {"running", "stopping"}
    /\ Len(arrived) + Len(batch) + Len(responses) < MaxRequests
    /\ \E req \in Requests : arrived' = Append(arrived, req)
    /\ UNCHANGED <<tool, exit_code, loop, batch, responses, stopper, returned>>
    /\ UNCHANGED <<predVars, diffVars>>

\* the loop starts an iteration with everything that is ready
Poll ==
    /\ loop = "running"
    /\ batch = <<>>
    /\ arrived # <<>>
    /\ batch' = arrived
    /\ arrived' = <<>>
    /\ UNCHANGED <<tool, exit_code, loop, responses, stopper, returned>>
    /\ UNCHANGED <<predVars, diffVars>>

\* the loop runs the handler of the next request of the iteration
Handle ==
    /\ loop \in {"running", "stopping"}
    /\ batch # <<>>
    /\ LET req == Head(batch)
           st == [exit_code |-> exit_code, loop |-> loop]
           r == IF req.path = "/api/closetool"
                THEN ApiCloseHandler_post(tool, req, st)
                ELSE MainHandler_get(tool, req, st)
       IN  /\ exit_code' = r.exit_code
           /\ loop' = r.loop
           /\ responses' = Append(responses, r.status)
           /\ stopper' = IF loop = "running" /\ r.loop = "stopping"
                         THEN r.exit_code ELSE stopper
    /\ batch' = Tail(batch)
    /\ UNCHANGED <<tool, arrived, returned>>
    /\ UNCHANGED <<predVars, diffVars>>

\* start() returns and main_server returns exit_code, nbdimeserver.py 251-252
MainServerReturn ==
    /\ loop = "stopping"
    /\ batch = <<>>
    /\ loop' = "stopped"
    /\ returned' = exit_code
    /\ UNCHANGED <<tool, exit_code, arrived, batch, responses, stopper>>
    /\ UNCHANGED <<predVars, diffVars>>

InitServer ==
    /\ InitPredIdle
    /\ InitDiffIdle
    /\ tool \in {"none", "difftool", "mergetool"}
    /\ exit_code = IntCode("0")
    /\ loop = "idle"
    /\ arrived = <<>>
    /\ batch = <<>>
    /\ responses = <<>>
    /\ stopper = NoCode
    /\ returned = NoCode

NextServer ==
    \/ MainServerStart
    \/ Arrive
    \/ Poll
    \/ Handle
    \/ MainServerReturn

SpecServer == InitServer /\ [][NextServer]_vars

-----------------------------------------------------------------------------
(* Properties *)

\* the caller's two documents
DocA == heap[1]
DocB == heap[2]

IsTrue(r) == r.status = "returned" /\ r.value
IsFalse(r) == r.status = "returned" /\ ~r.value
IsRaised(r) == r.status = "raised"
Applied(r) == r.status # "none"

WellFormedDoc(d) ==
    /\ Has(d, "cells")
    /\ \A k \in 1..Len(d["cells"]) : WellFormedCell(d["cells"][k])

Ops(script) == {script[k][1] : k \in 1..Len(script)}

\* the snakes returned are monotonic and non-overlapping (section 4.3)
SnakesMonotonic == pc \in {"loop", "done"} => Monotonic(snakes, FullRect)

\* C1: when diff_notebooks(A, B) has returned, applying its edit script to A
\* gives a document equal to B.
C1_RoundTrip == pc = "done" => patch(DocA, nbdiff) = DocB

C1_Witness ==
    /\ pc = "done"
    /\ DocA["metadata"] # DocB["metadata"]
    /\ Len(nbdiff) = 2
    /\ Ops(di) = {SEQDELETE, SEQINSERT, PATCH}
    /\ patch(DocA, nbdiff) = DocB

\* C2: the edit script diff_notebooks(A, B) returns is empty if and only if A
\* and B are equal, and the call on two equal well-formed documents does not
\* fail.
C2_EmptyIffEqual ==
    /\ pc = "done" => (nbdiff = <<>> <=> DocA = DocB)
    /\ (WellFormedDoc(DocA) /\ DocA = DocB) => pc # "failed"

C2_Witness ==
    /\ pc = "done"
    /\ DocA = DocB
    /\ Len(DocA["cells"]) >= 2
    /\ DocA["cells"][1] # DocA["cells"][2]
    /\ nbdiff = <<>>
    /\ di = <<>>

Indices(script, op) == {k \in 1..Len(script) : script[k][1] = op}

\* the indices of A an entry deletes
Deleted(e) == e[2]..(e[2] + e[3] - 1)

C4_Ascending ==
    /\ \A k \in 1..Len(di) : di[k][2] \in 0..Len(acells)
    /\ \A k \in 1..(Len(di) - 1) : di[k][2] <= di[k + 1][2]

C4_Witness ==
    /\ pc = "done"
    /\ Len(snakes) >= 1
    /\ Ops(di) = {SEQDELETE, SEQINSERT, PATCH}
    /\ \E k \in 1..(Len(di) - 1) : di[k][2] < di[k + 1][2]

\* C5: on well-formed cells, compare_cell_source_and_outputs(x, y) implies
\* compare_cell_source_exact(x, y), which implies
\* compare_cell_source_approximate(x, y).
C5_Monotonic ==
    (WellFormedCell(x) /\ WellFormedCell(y)) =>
        /\ (IsTrue(r_outputs) /\ Applied(r_exact)) => IsTrue(r_exact)
        /\ (IsTrue(r_exact) /\ Applied(r_approximate)) => IsTrue(r_approximate)

C5_Witness ==
    /\ WellFormedCell(x)
    /\ WellFormedCell(y)
    /\ x["cell_type"] = "code"
    /\ x["source"].islist
    /\ Len(x["source"].lines) = 2
    /\ IsTrue(r_outputs)
    /\ IsTrue(r_exact)
    /\ IsTrue(r_approximate)

\* C6 as stated: on two cells that have a cell_type no predicate raises, and a
\* predicate that finds the source or the outputs it reads missing returns
\* False.
C6_Original ==
    (Has(x, "cell_type") /\ Has(y, "cell_type")) =>
        /\ ~IsRaised(r_approximate) /\ ~IsRaised(r_exact) /\ ~IsRaised(r_outputs)
        /\ (~Has(x, "source") \/ ~Has(y, "source")) =>
              /\ Applied(r_approximate) => IsFalse(r_approximate)
              /\ Applied(r_exact) => IsFalse(r_exact)
              /\ Applied(r_outputs) => IsFalse(r_outputs)

SameType == Has(x, "cell_type") /\ Has(y, "cell_type") /\ x["cell_type"] = y["cell_type"]
BothSources == Has(x, "source") /\ Has(y, "source")

\* what each of compare_cell_source_approximate and compare_cell_source_exact
\* does with missing keys
SourceOutcome(r) ==
    Applied(r) =>
        /\ (~Has(x, "cell_type") \/ ~Has(y, "cell_type")) => IsRaised(r)
        /\ (Has(x, "cell_type") /\ Has(y, "cell_type") /\ ~SameType) => IsFalse(r)
        /\ (SameType /\ ~BothSources) => IsRaised(r)
        /\ (SameType /\ BothSources) => ~IsRaised(r)

\* C6 amended: a predicate raises KeyError when cell_type is missing from
\* either cell; it returns False when both cell types are there and differ,
\* whatever else is missing; with equal cell types it raises KeyError when the
\* source is missing from either cell, and compare_cell_source_and_outputs also
\* when the sources are equal, the cells are code cells and outputs is missing
\* from either; in every other case it returns a boolean.
C6_MissingKeyRaises ==
    /\ SourceOutcome(r_approximate)
    /\ SourceOutcome(r_exact)
    /\ Applied(r_outputs) =>
          /\ (~Has(x, "cell_type") \/ ~Has(y, "cell_type")) => IsRaised(r_outputs)
          /\ (Has(x, "cell_type") /\ Has(y, "cell_type") /\ ~SameType)
                => IsFalse(r_outputs)
          /\ (SameType /\ ~BothSources) => IsRaised(r_outputs)
          /\ (SameType /\ BothSources /\ x["source"] # y["source"]) => IsFalse(r_outputs)
          /\ (SameType /\ BothSources /\ x["source"] = y["source"]) =>
                (IsRaised(r_outputs) <=>
                    (x["cell_type"] = "code"
                     /\ (~Has(x, "outputs") \/ ~Has(y, "outputs"))))

C6_Witness ==
    /\ SameType
    /\ ~Has(x, "source")
    /\ Has(y, "source")
    /\ IsRaised(r_approximate)
    /\ IsRaised(r_exact)
    /\ IsRaised(r_outputs)

\* C7: no step of diff_notebooks changes either of the caller's documents.
C7_InputsUnchanged == [][heap'[1] = heap[1] /\ heap'[2] = heap[2]]_vars

C7_Witness ==
    /\ pc = "done"
    /\ nba # 1
    /\ nbb # 2
    /\ Has(DocA, "cells") /\ ~Has(heap[nba], "cells")
    /\ Has(DocB, "cells") /\ ~Has(heap[nbb], "cells")
    /\ DocA["cells"] = acells
    /\ DocB["cells"] = bcells
    /\ Len(acells) >= 1

\* the cell lists of the two documents of a scenario, and the index (0-based)
\* of the one cell they differ in
CellsA == DocA["cells"]
CellsB == DocB["cells"]
ChangedIndex == CHOOSE k \in 0..(Len(CellsA) - 1) : CellsA[k + 1] # CellsB[k + 1]
ChangedA == CellsA[ChangedIndex + 1]
ChangedB == CellsB[ChangedIndex + 1]

SameTypeAndSource(c1, c2) ==
    c1["cell_type"] = c2["cell_type"] /\ c1["source"] = c2["source"]

\* scenario A: cell 2's source goes from "x=1" to "x = 1"
ScenarioA ==
    /\ pc = "done"
    /\ ChangedIndex = 2
    /\ ChangedA["source"] = StrSource(T_x_eq_1)
    /\ ChangedB["source"] = StrSource(T_x_sp_1)

\* no other cell has the cell type and the source of either version of the
\* changed cell
NoTwin ==
    \A m \in 0..(Len(CellsA) - 1) :
        m # ChangedIndex =>
            /\ ~SameTypeAndSource(CellsA[m + 1], ChangedA)
            /\ ~SameTypeAndSource(CellsA[m + 1], ChangedB)

\* C8 as stated: in scenario A the approximate predicate matches the two
\* versions of cell 2 and the cell edit script is one PATCH at index 2 holding a
\* diff of the source.
C8_Original ==
    ScenarioA =>
        /\ IsTrue(compare_cell_source_approximate(ChangedA, ChangedB))
        /\ Len(di) = 1
        /\ di[1][1] = PATCH
        /\ di[1][2] = 2
        /\ \E e \in 1..Len(di[1][3]) : di[1][3][e][2] = "source"

\* C8 amended: in scenario A the approximate predicate rejects the two versions
\* of cell 2 (their ratio 2*3/(3+5) does not exceed 0.90), no PATCH pairs them,
\* and when no other cell has the cell type and source of either version the
\* cell edit script is SEQDELETE at index 2 of one cell, then SEQINSERT at index
\* 2 of the new cell.
C8_DeleteInsert ==
    ScenarioA =>
        /\ IsFalse(compare_cell_source_approximate(ChangedA, ChangedB))
        /\ \A k \in 1..Len(snakes) :
              ~(/\ snakes[k][1] <= 2 /\ 2 < snakes[k][1] + snakes[k][3]
                /\ snakes[k][1] = snakes[k][2])
        /\ NoTwin => di = << <<SEQDELETE, 2, 1>>, <<SEQINSERT, 2, <<ChangedB>>>> >>

C8_Witness ==
    /\ ScenarioA
    /\ NoTwin
    /\ CellsA[1] # CellsA[2]
    /\ di = << <<SEQDELETE, 2, 1>>, <<SEQINSERT, 2, <<ChangedB>>>> >>

\* scenario D: only the outputs of one code cell change
ScenarioD ==
    /\ pc = "done"
    /\ ChangedA["cell_type"] = "code"
    /\ ChangedA["source"] = ChangedB["source"]
    /\ ChangedA["outputs"] # ChangedB["outputs"]

Covers(s, i) == s[1] <= i /\ i < s[1] + s[3]
CoversB(s, j) == s[2] <= j /\ j < s[2] + s[3]

\* at the strictest level the changed cell stays unmatched; the exact-source
\* predicate matches its two versions and the snakes returned pair them; the
\* cell edit script is one PATCH at the changed index holding one PATCH of
\* "outputs"
ScenarioDOutcome ==
    /\ \A sn \in compute_snakes(acells, bcells, FullRect, TopLevel) :
          \A k \in 1..Len(sn) :
              ~Covers(sn[k], ChangedIndex) /\ ~CoversB(sn[k], ChangedIndex)
    /\ IsTrue(compare_cell_source_exact(ChangedA, ChangedB))
    /\ \E k \in 1..Len(snakes) :
          Covers(snakes[k], ChangedIndex) /\ snakes[k][1] = snakes[k][2]
    /\ Len(di) = 1
    /\ di[1][1] = PATCH
    /\ di[1][2] = ChangedIndex
    /\ Len(di[1][3]) = 1
    /\ di[1][3][1][1] = PATCH
    /\ di[1][3][1][2] = "outputs"

\* C9 as stated: in scenario D, duplicates of cells allowed, the changed cell is
\* left unmatched at the strictest level, matched at the exact-source level, and
\* the cell edit script is a single PATCH of its outputs.
C9_Original == ScenarioD => ScenarioDOutcome

\* no other cell has the cell type and the source of the changed cell
NoTwinSource ==
    \A m \in 0..(Len(CellsA) - 1) :
        m # ChangedIndex => ~SameTypeAndSource(CellsA[m + 1], ChangedA)

\* C9 amended: in scenario D, when no other cell has the cell type and the
\* source of the changed cell, that cell is left unmatched at the strictest
\* level, matched at the exact-source level, and the cell edit script is a
\* single PATCH of its outputs.
C9_PatchOutputs == (ScenarioD /\ NoTwinSource) => ScenarioDOutcome

C9_Witness ==
    /\ ScenarioD
    /\ NoTwinSource
    /\ Len(CellsA) = 3
    /\ ChangedIndex = 1
    /\ CellsA[1] = CellsA[3]
    /\ ScenarioDOutcome

\* C10 as stated: a server that is no tool never stops its loop and never
\* changes exit_code; main_server returns the exit_code of the close request
\* that stopped the loop.
C10_Original ==
    /\ tool = "none" => (loop \in {"idle", "running"} /\ exit_code = IntCode("0"))
    /\ returned # NoCode => returned = stopper

\* a server that is no tool answers every close request with 400 and keeps
\* running
NoRemoteCloseWithoutTool ==
    tool = "none" =>
        /\ loop \in {"idle", "running"}
        /\ exit_code = IntCode("0")
        /\ returned = NoCode

\* main_server returns the exit_code of the last close request handled
ReturnsLastExitCode == loop = "stopped" => (returned = exit_code /\ tool # "none")

====
